---- MODULE Spec2Model ----
(***************************************************************************)
(* Key-value store with a write-ahead transaction log.                     *)
(*                                                                         *)
(* The model covers the in-memory store (Put/Get/Delete), the file-backed  *)
(* transaction logger (ReadEvents, Run, WritePut, WriteDelete), the        *)
(* recovery loop of initializeTransactionLog, the request handlers that    *)
(* feed the logger in live mode, and the writer of the relational logger.  *)
(*                                                                         *)
(* Strings are sequences of one-character strings, so that the persisted   *)
(* line format and its parser are modelled character by character.         *)
(***************************************************************************)
EXTENDS Integers, Sequences, FiniteSets, TLC

VARIABLES
    file,         \* content of transaction.log, a sequence of characters
    store,        \* store.m : key -> value
    lastSequence, \* FileTransactionLogger.lastSequence
    rpc,          \* position of the ReadEvents goroutine
    rnext,        \* number of lines the scanner has returned
    re,           \* the Event the ReadEvents goroutine is sending
    rerr,         \* the error the ReadEvents goroutine reported, or "none"
    outError,     \* outError channel buffer (capacity 1)
    outErrorClosed,
    outEventClosed,
    mpc,          \* position of main / initializeTransactionLog
    err,          \* initializeTransactionLog's err
    ok,           \* initializeTransactionLog's ok
    delivered,    \* history: events received from outEvent by the recovery loop
    events,       \* the logger's events channel buffer
    sendq,        \* callers parked on a send to the full events channel
    errors,       \* the logger's errors channel buffer (capacity 1)
    wpc,          \* position of the writer goroutine started by Run
    cur,          \* the Event the writer goroutine holds (loop variable e)
    hpc,          \* position of each request handler
    hreq,         \* the Event each request handler is about to log
    nreq,         \* number of requests served so far
    restarted,    \* the process has been restarted on the file it left behind
    sent,         \* history: events accepted by the events channel, in order
    persisted,    \* history: events written completely to the log, in order
    pristine,     \* history: the file holds exactly the persisted lines
    rows,         \* relational backend: rows of table transactions
    pgSeq,        \* relational backend: last value of the BIGSERIAL sequence
    mu,           \* store's RWMutex: held for writing, number of read holds
    gpc,          \* position of each goroutine inside Put / Get / Delete
    gop,          \* the call each goroutine is executing
    gret,         \* what the last call of each goroutine returned
    lastMut,      \* history: the most recent mutation of each key
    fatal         \* the runtime has stopped the process (concurrent map access)

vars == <<file, store, lastSequence, rpc, rnext, re, rerr, outError,
          outErrorClosed, outEventClosed, mpc, err, ok, delivered, events,
          sendq, errors, wpc, cur, hpc, hreq, nreq, restarted, sent,
          persisted, pristine, rows, pgSeq, mu, gpc, gop, gret, lastMut,
          fatal>>

----------------------------------------------------------------------------
(* Bounds of the model *)

\* Capacity of the events channel. The source creates it with capacity 16;
\* the model uses a small capacity so that a full queue is within reach.
QueueCap == 1

\* Number of PUT/DELETE requests served over the whole run.
MaxRequests == 2

----------------------------------------------------------------------------
(* Program constants *)

EventDelete == 1
EventPut == 2

\* EventType is a byte: Sscanf rejects a kind above 255.
MaxEventType == 255

\* Capacity of the errors channel made by Run and of outError.
ErrCap == 1

TAB == "\t"
NL == "\n"

\* The concurrent request handlers (net/http serves each request on its own goroutine)
Handlers == {1, 2}

Keys == { <<"a">>, <<"b">> }
Values == { <<"1">>, <<"2">> }

Nil == "nil"

\* The zero Event, as `e := Event{}` and a receive from a closed channel give.
ZeroEvent == [Sequence |-> 0, EventType |-> 0, Key |-> <<>>, Value |-> <<>>]

----------------------------------------------------------------------------
(* The store *)

Put(m, key, value) ==
    [k \in (DOMAIN m) \cup {key} |-> IF k = key THEN value ELSE m[k]]

\* mutant: delete empties the map
Delete_Clear(m, key) == [k \in {} |-> <<>>]

Delete(m, key) ==
    [k \in (DOMAIN m) \ {key} |-> m[k]]

\* mutant: a missing key gives the zero value and no error
Get_NoError(m, key) ==
    IF key \in DOMAIN m
    THEN [value |-> m[key], err |-> Nil]
    ELSE [value |-> <<>>, err |-> Nil]

Get(m, key) ==
    IF key \in DOMAIN m
    THEN [value |-> m[key], err |-> Nil]
    ELSE [value |-> <<>>, err |-> "ErrorNoSuchKey"]

EmptyStore == [k \in {} |-> <<>>]

storeVars == <<mu, gpc, gop, gret, lastMut, fatal>>

NoCall == [op |-> "none", key |-> <<>>, value |-> <<>>]
NoReturn == [value |-> <<>>, err |-> "none"]

\* var store: the mutex is free and no goroutine is inside a store function
StoreStart ==
    /\ mu = [w |-> FALSE, r |-> 0]
    /\ gpc = [g \in Handlers |-> "idle"]
    /\ gop = [g \in Handlers |-> NoCall]
    /\ gret = [g \in Handlers |-> NoReturn]
    /\ lastMut = [k \in Keys |-> [op |-> "none", value |-> <<>>]]
    /\ fatal = FALSE

----------------------------------------------------------------------------
(* The persisted line format: Fprintf("%d\t%d\t%s\t%s\n") *)

Digits == <<"0", "1", "2", "3", "4", "5", "6", "7", "8", "9">>

RECURSIVE FormatUint(_)
FormatUint(n) ==
    IF n < 10 THEN <<Digits[n + 1]>>
    ELSE FormatUint(n \div 10) \o <<Digits[(n % 10) + 1]>>

FormatLine(seq, e) ==
    FormatUint(seq) \o <<TAB>> \o FormatUint(e.EventType) \o <<TAB>>
        \o e.Key \o <<TAB>> \o e.Value \o <<NL>>

----------------------------------------------------------------------------
(* bufio.Scanner with the default split function ScanLines *)

RECURSIVE ScanLinesFrom(_, _, _)
ScanLinesFrom(data, p, line) ==
    IF p > Len(data)
    THEN (IF line = <<>> THEN <<>> ELSE <<line>>)
    ELSE IF data[p] = NL
         THEN <<line>> \o ScanLinesFrom(data, p + 1, <<>>)
         ELSE ScanLinesFrom(data, p + 1, Append(line, data[p]))

ScanLines(data) == ScanLinesFrom(data, 1, <<>>)

----------------------------------------------------------------------------
(* fmt.Sscanf(line, "%d\t%d\t%s\t%s", &e.Sequence, &e.EventType, &e.Key,   *)
(* &e.Value)                                                               *)

IsSpace(c) == c \in {" ", TAB}

IsDigit(c) == \E i \in 1..10 : Digits[i] = c

DigitValue(c) == (CHOOSE i \in 1..10 : Digits[i] = c) - 1

\* ss.SkipSpace: the verbs discard leading spaces
RECURSIVE SkipSpace(_, _)
SkipSpace(s, p) ==
    IF p <= Len(s) /\ IsSpace(s[p]) THEN SkipSpace(s, p + 1) ELSE p

RECURSIVE DigitsEnd(_, _)
DigitsEnd(s, p) ==
    IF p <= Len(s) /\ IsDigit(s[p]) THEN DigitsEnd(s, p + 1) ELSE p

\* %s stops at the first space
RECURSIVE TokenEnd(_, _)
TokenEnd(s, p) ==
    IF p <= Len(s) /\ ~IsSpace(s[p]) THEN TokenEnd(s, p + 1) ELSE p

RECURSIVE ParseUint(_)
ParseUint(ds) ==
    IF ds = <<>> THEN 0
    ELSE 10 * ParseUint(SubSeq(ds, 1, Len(ds) - 1)) + DigitValue(ds[Len(ds)])

ScanFail == [ok |-> FALSE, val |-> 0, pos |-> 0]

\* %d into an unsigned integer: at least one digit, no sign
ScanUint(s, p) ==
    LET q == SkipSpace(s, p)
        r == DigitsEnd(s, q)
    IN  IF q > Len(s) \/ r = q THEN ScanFail
        ELSE [ok |-> TRUE, val |-> ParseUint(SubSeq(s, q, r - 1)), pos |-> r]

\* %s: a non-empty token up to the next space; end of input is an error
ScanString(s, p) ==
    LET q == SkipSpace(s, p)
        r == TokenEnd(s, q)
    IN  IF q > Len(s) THEN [ok |-> FALSE, val |-> <<>>, pos |-> 0]
        ELSE [ok |-> TRUE, val |-> SubSeq(s, q, r - 1), pos |-> r]

\* a tab in the format: one or more spaces of input, or end of input
AdvanceSpace(s, p) ==
    IF p > Len(s) THEN [ok |-> TRUE, pos |-> p]
    ELSE IF ~IsSpace(s[p]) THEN [ok |-> FALSE, pos |-> 0]
    ELSE [ok |-> TRUE, pos |-> SkipSpace(s, p)]

SscanfFail == [ok |-> FALSE, e |-> ZeroEvent]

Sscanf(line) ==
    LET a == ScanUint(line, 1) IN
    IF ~a.ok THEN SscanfFail ELSE
    LET s1 == AdvanceSpace(line, a.pos) IN
    IF ~s1.ok THEN SscanfFail ELSE
    LET b == ScanUint(line, s1.pos) IN
    IF ~b.ok \/ b.val > MaxEventType THEN SscanfFail ELSE
    LET s2 == AdvanceSpace(line, b.pos) IN
    IF ~s2.ok THEN SscanfFail ELSE
    LET c == ScanString(line, s2.pos) IN
    IF ~c.ok THEN SscanfFail ELSE
    LET s3 == AdvanceSpace(line, c.pos) IN
    IF ~s3.ok THEN SscanfFail ELSE
    LET d == ScanString(line, s3.pos) IN
    IF ~d.ok THEN SscanfFail ELSE
    [ok |-> TRUE,
     e |-> [Sequence |-> a.val, EventType |-> b.val, Key |-> c.val, Value |-> d.val]]

----------------------------------------------------------------------------
(* Initial state: the process has opened transaction.log and called        *)
(* ReadEvents; the log on disk may hold anything.                          *)

\* mutant: the event is built without the value
Event_NoValue(kind, key, value) ==
    [Sequence |-> 0, EventType |-> kind, Key |-> key, Value |-> <<>>]

\* Event{EventType: kind, Key: key, Value: value}
Event(kind, key, value) ==
    [Sequence |-> 0, EventType |-> kind, Key |-> key, Value |-> value]

LogLine(seq, kind, key, value) == FormatLine(seq, Event(kind, key, value))

InitialLogs ==
    { <<>>,
      LogLine(1, EventPut, <<"a">>, <<"1">>) \o LogLine(3, EventDelete, <<"a">>, <<"1">>),
      LogLine(2, EventPut, <<"a">>, <<"1">>) \o LogLine(1, EventPut, <<"b">>, <<"2">>)
          \o LogLine(3, EventPut, <<"a">>, <<"2">>),
      LogLine(1, EventPut, <<"a">>, <<"1">>) \o LogLine(1, EventPut, <<"a">>, <<"2">>),
      LogLine(0, EventPut, <<"a">>, <<"1">>),
      LogLine(1, EventPut, <<"a">>, <<"1">>) \o <<"x", NL>>
          \o LogLine(2, EventPut, <<"b">>, <<"2">>) }

\* The state of a freshly started process on log f
ProcessStart(f) ==
    /\ file = f
    /\ store = EmptyStore
    /\ lastSequence = 0
    /\ rpc = "scan"
    /\ rnext = 0
    /\ re = ZeroEvent
    /\ rerr = "none"
    /\ outError = <<>>
    /\ outErrorClosed = FALSE
    /\ outEventClosed = FALSE
    /\ mpc = "loop"
    /\ err = Nil
    /\ ok = TRUE
    /\ delivered = <<>>
    /\ events = <<>>
    /\ sendq = <<>>
    /\ errors = <<>>
    /\ wpc = "none"
    /\ cur = ZeroEvent
    /\ hpc = [h \in Handlers |-> "idle"]
    /\ hreq = [h \in Handlers |-> ZeroEvent]
    /\ sent = <<>>

Init ==
    /\ \E f \in InitialLogs :
          /\ ProcessStart(f)
          /\ pristine = (f = <<>>)
    /\ nreq = 0
    /\ restarted = FALSE
    /\ persisted = <<>>
    /\ rows = <<>>
    /\ pgSeq = 0
    /\ StoreStart

Alive == mpc # "panic"

liveVars == <<events, sendq, errors, wpc, cur, hpc, hreq, nreq, sent>>
histVars == <<restarted, persisted, pristine>>
pgVars == <<rows, pgSeq>>
readerChans == <<outError, outErrorClosed, outEventClosed>>

----------------------------------------------------------------------------
(* The goroutine of FileTransactionLogger.ReadEvents *)

\* mutant: the check written with > instead of >=
OutOfSequence_Strict(last, seq) == last > seq

\* the sanity check on the sequence numbers
OutOfSequence(last, seq) == last >= seq

\* mutant: the return after the report is missing, the scan loop goes on
ReaderFail_NoReturn(e) ==
    /\ Len(outError) < ErrCap
    /\ outError' = Append(outError, e)
    /\ rerr' = e
    /\ rpc' = "scan"

\* the goroutine reports e on outError (buffered, never full here) and returns
ReaderFail(e) ==
    /\ Len(outError) < ErrCap
    /\ outError' = Append(outError, e)
    /\ rerr' = e
    /\ rpc' = "close"

\* scanner.Scan() returns a line
ReaderScanLine ==
    /\ Alive
    /\ rpc = "scan"
    /\ rnext < Len(ScanLines(file))
    /\ rnext' = rnext + 1
    /\ LET r == Sscanf(ScanLines(file)[rnext + 1]) IN
         IF ~r.ok
         THEN /\ ReaderFail("parse")
              /\ UNCHANGED <<lastSequence, re>>
         ELSE IF OutOfSequence(lastSequence, r.e.Sequence)
         THEN /\ ReaderFail("order")
              /\ UNCHANGED <<lastSequence, re>>
         ELSE /\ lastSequence' = r.e.Sequence
              /\ re' = r.e
              /\ rpc' = "send"
              /\ UNCHANGED <<outError, rerr>>
    /\ UNCHANGED <<file, store, outErrorClosed, outEventClosed, mpc, err, ok,
                   delivered, liveVars, histVars, pgVars>>
    /\ UNCHANGED storeVars

\* scanner.Scan() returns false at the end of the file, scanner.Err() is nil
ReaderScanEOF ==
    /\ Alive
    /\ rpc = "scan"
    /\ rnext = Len(ScanLines(file))
    /\ rpc' = "close"
    /\ UNCHANGED <<file, store, lastSequence, rnext, re, rerr, readerChans, mpc,
                   err, ok, delivered, liveVars, histVars, pgVars>>
    /\ UNCHANGED storeVars

\* scanner.Scan() returns false because the read failed, scanner.Err() is set.
\* The log is shorter than the scanner's buffer: the first read returns all
\* of it, so a read fails either before any line or after the last one.
ReaderReadFailure ==
    /\ Alive
    /\ rpc = "scan"
    /\ rnext \in {0, Len(ScanLines(file))}
    /\ ReaderFail("read")
    /\ UNCHANGED <<file, store, lastSequence, rnext, re, outErrorClosed,
                   outEventClosed, mpc, err, ok, delivered, liveVars, histVars,
                   pgVars>>
    /\ UNCHANGED storeVars

\* the deferred calls when the goroutine ends: close(outError), then
\* close(outEvent)
ReaderClose ==
    /\ Alive
    /\ rpc = "close"
    /\ outErrorClosed' = TRUE
    /\ outEventClosed' = TRUE
    /\ rpc' = "done"
    /\ UNCHANGED <<file, store, lastSequence, rnext, re, rerr, outError, mpc,
                   err, ok, delivered, liveVars, histVars, pgVars>>
    /\ UNCHANGED storeVars

----------------------------------------------------------------------------
(* The recovery loop of initializeTransactionLog *)

\* mutant: the switch lacks the EventDelete case
ApplyEvent_NoDelete(m, e) ==
    IF e.EventType = EventPut THEN Put(m, e.Key, e.Value) ELSE m

\* switch e.EventType
ApplyEvent(m, e) ==
    IF e.EventType = EventDelete THEN Delete(m, e.Key)
    ELSE IF e.EventType = EventPut THEN Put(m, e.Key, e.Value)
    ELSE m

\* mutant: the loop is left after the first receive
LoopAgain_Once(k, er) == FALSE

\* for ok && err == nil
LoopAgain(k, er) == k /\ er = Nil

\* case e, ok = <-events, an event is handed over by the goroutine
RecvEvent ==
    /\ mpc = "loop"
    /\ rpc = "send"
    /\ ~outEventClosed
    /\ ok' = TRUE
    /\ store' = ApplyEvent(store, re)
    /\ err' = Nil
    /\ delivered' = Append(delivered, re)
    /\ rpc' = "scan"
    /\ mpc' = IF LoopAgain(ok', err') THEN "loop" ELSE "run"
    /\ UNCHANGED <<file, lastSequence, rnext, re, rerr, readerChans, liveVars,
                   histVars, pgVars>>
    /\ UNCHANGED storeVars

\* case e, ok = <-events, the channel is closed: e is the zero Event
RecvEventClosed ==
    /\ mpc = "loop"
    /\ outEventClosed
    /\ ok' = FALSE
    /\ store' = ApplyEvent(store, ZeroEvent)
    /\ mpc' = IF LoopAgain(ok', err) THEN "loop" ELSE "run"
    /\ UNCHANGED <<file, lastSequence, rpc, rnext, re, rerr, readerChans, err,
                   delivered, liveVars, histVars, pgVars>>
    /\ UNCHANGED storeVars

\* case err, ok = <-errors, an error is buffered
RecvError ==
    /\ mpc = "loop"
    /\ outError # <<>>
    /\ err' = Head(outError)
    /\ outError' = Tail(outError)
    /\ ok' = TRUE
    /\ mpc' = IF LoopAgain(ok', err') THEN "loop" ELSE "run"
    /\ UNCHANGED <<file, store, lastSequence, rpc, rnext, re, rerr,
                   outErrorClosed, outEventClosed, delivered, liveVars,
                   histVars, pgVars>>
    /\ UNCHANGED storeVars

\* case err, ok = <-errors, the channel is closed and empty
RecvErrorClosed ==
    /\ mpc = "loop"
    /\ outError = <<>>
    /\ outErrorClosed
    /\ err' = Nil
    /\ ok' = FALSE
    /\ mpc' = IF LoopAgain(ok', err') THEN "loop" ELSE "run"
    /\ UNCHANGED <<file, store, lastSequence, rpc, rnext, re, rerr, readerChans,
                   delivered, liveVars, histVars, pgVars>>
    /\ UNCHANGED storeVars

\* mutant: Run starts the counter again from zero
Run_ResetsSequence ==
    /\ mpc = "run"
    /\ events' = <<>>
    /\ errors' = <<>>
    /\ wpc' = "recv"
    /\ mpc' = "ret"
    /\ lastSequence' = 0
    /\ UNCHANGED <<file, store, rpc, rnext, re, rerr, readerChans, err, ok,
                   delivered, sendq, cur, hpc, hreq, nreq, sent, histVars,
                   pgVars>>
    /\ UNCHANGED storeVars

\* logger.Run(): makes the channels and starts the writer goroutine
Run ==
    /\ mpc = "run"
    /\ events' = <<>>
    /\ errors' = <<>>
    /\ wpc' = "recv"
    /\ mpc' = "ret"
    /\ UNCHANGED <<file, store, lastSequence, rpc, rnext, re, rerr, readerChans,
                   err, ok, delivered, sendq, cur, hpc, hreq, nreq, sent,
                   histVars, pgVars>>
    /\ UNCHANGED storeVars

\* return err; main panics on an error and serves requests otherwise
Return ==
    /\ mpc = "ret"
    /\ mpc' = IF err = Nil THEN "live" ELSE "panic"
    /\ UNCHANGED <<file, store, lastSequence, rpc, rnext, re, rerr, readerChans,
                   err, ok, delivered, liveVars, histVars, pgVars>>
    /\ UNCHANGED storeVars

----------------------------------------------------------------------------
(* Live mode: the request handlers *)

\* putHandler up to the return of Put
PutHandler(h, key, value) ==
    /\ mpc = "live"
    /\ hpc[h] = "idle"
    /\ nreq < MaxRequests
    /\ store' = Put(store, key, value)
    /\ hreq' = [hreq EXCEPT ![h] = Event(EventPut, key, value)]
    /\ hpc' = [hpc EXCEPT ![h] = "send"]
    /\ nreq' = nreq + 1
    /\ UNCHANGED <<file, lastSequence, rpc, rnext, re, rerr, readerChans, mpc,
                   err, ok, delivered, events, sendq, errors, wpc, cur, sent,
                   histVars, pgVars>>
    /\ UNCHANGED storeVars

\* deleteHandler up to the return of Delete
DeleteHandler(h, key) ==
    /\ mpc = "live"
    /\ hpc[h] = "idle"
    /\ nreq < MaxRequests
    /\ store' = Delete(store, key)
    /\ hreq' = [hreq EXCEPT ![h] = Event(EventDelete, key, <<>>)]
    /\ hpc' = [hpc EXCEPT ![h] = "send"]
    /\ nreq' = nreq + 1
    /\ UNCHANGED <<file, lastSequence, rpc, rnext, re, rerr, readerChans, mpc,
                   err, ok, delivered, events, sendq, errors, wpc, cur, sent,
                   histVars, pgVars>>
    /\ UNCHANGED storeVars

\* mutant: the channel takes one element more than its capacity
ChanHasRoom_OffByOne(q, cap) == Len(q) <= cap

\* a buffered channel accepts a send while it holds fewer than cap elements
ChanHasRoom(q, cap) == Len(q) < cap

\* l.events <- Event{...} in WritePut / WriteDelete: the channel has room,
\* the call returns
WriteEvent(h) ==
    /\ mpc = "live"
    /\ hpc[h] = "send"
    /\ ChanHasRoom(events, QueueCap)
    /\ events' = Append(events, hreq[h])
    /\ sent' = Append(sent, hreq[h])
    /\ hpc' = [hpc EXCEPT ![h] = "idle"]
    /\ UNCHANGED <<file, store, lastSequence, rpc, rnext, re, rerr, readerChans,
                   mpc, err, ok, delivered, sendq, errors, wpc, cur, hreq, nreq,
                   histVars, pgVars>>
    /\ UNCHANGED storeVars

\* l.events <- Event{...}: the channel is full, the caller parks on it
WriteEventBlock(h) ==
    /\ mpc = "live"
    /\ hpc[h] = "send"
    /\ ~ChanHasRoom(events, QueueCap)
    /\ sendq' = Append(sendq, h)
    /\ hpc' = [hpc EXCEPT ![h] = "blocked"]
    /\ UNCHANGED <<file, store, lastSequence, rpc, rnext, re, rerr, readerChans,
                   mpc, err, ok, delivered, events, errors, wpc, cur, hreq, nreq,
                   sent, histVars, pgVars>>
    /\ UNCHANGED storeVars

----------------------------------------------------------------------------
(* Live mode: the writer goroutine of FileTransactionLogger.Run *)

\* for e := range events: the oldest event leaves the buffer; the first
\* parked sender, if any, puts its event in the freed slot and resumes
ChanRecv ==
    /\ events # <<>>
    /\ cur' = Head(events)
    /\ IF sendq # <<>>
       THEN /\ events' = Append(Tail(events), hreq[Head(sendq)])
            /\ sent' = Append(sent, hreq[Head(sendq)])
            /\ hpc' = [hpc EXCEPT ![Head(sendq)] = "idle"]
            /\ sendq' = Tail(sendq)
       ELSE /\ events' = Tail(events)
            /\ UNCHANGED <<sent, hpc, sendq>>

\* mutant: the goroutine goes on receiving after it has reported a failure
WriterRecv_Resumes ==
    /\ mpc = "live"
    /\ wpc \in {"recv", "failed"}
    /\ ChanRecv
    /\ wpc' = "write"
    /\ UNCHANGED <<file, store, lastSequence, rpc, rnext, re, rerr, readerChans,
                   mpc, err, ok, delivered, errors, hreq, nreq, histVars, pgVars>>
    /\ UNCHANGED storeVars

\* for e := range events, the goroutine takes the next event
WriterRecv ==
    /\ mpc = "live"
    /\ wpc = "recv"
    /\ ChanRecv
    /\ wpc' = "write"
    /\ UNCHANGED <<file, store, lastSequence, rpc, rnext, re, rerr, readerChans,
                   mpc, err, ok, delivered, errors, hreq, nreq, histVars, pgVars>>
    /\ UNCHANGED storeVars

\* mutant: the event is taken but no line is written
WriterWrite_Drop ==
    /\ mpc = "live"
    /\ wpc = "write"
    /\ wpc' = "recv"
    /\ UNCHANGED <<file, store, lastSequence, rpc, rnext, re, rerr, readerChans,
                   mpc, err, ok, delivered, events, sendq, errors, cur, hpc,
                   hreq, nreq, sent, histVars, pgVars>>
    /\ UNCHANGED storeVars

\* l.lastSequence++ and a successful Fprintf
WriterWrite ==
    /\ mpc = "live"
    /\ wpc = "write"
    /\ lastSequence' = lastSequence + 1
    /\ file' = file \o FormatLine(lastSequence', cur)
    /\ persisted' = Append(persisted, cur)
    /\ wpc' = "recv"
    /\ UNCHANGED <<store, rpc, rnext, re, rerr, readerChans, mpc, err, ok,
                   delivered, events, sendq, errors, cur, hpc, hreq, nreq, sent,
                   restarted, pristine, pgVars>>
    /\ UNCHANGED storeVars

\* mutant: the return after errors <- err is missing, the loop goes on
AfterWriteError_NoReturn(q) ==
    IF Len(q) < ErrCap
    THEN [errors |-> Append(q, "write"), wpc |-> "recv"]
    ELSE [errors |-> q, wpc |-> "errorBlocked"]

\* what the writer goroutine does after a failed Fprintf
AfterWriteError(q) ==
    IF Len(q) < ErrCap
    THEN [errors |-> Append(q, "write"), wpc |-> "failed"]
    ELSE [errors |-> q, wpc |-> "errorBlocked"]

\* what a failed Fprintf may leave in the file: nothing, or the line cut
\* short (here: less its newline)
TornWrites(line) == { <<>>, SubSeq(line, 1, Len(line) - 1) }

\* l.lastSequence++ and a failed Fprintf; errors <- err; return
WriterWriteFail ==
    /\ mpc = "live"
    /\ wpc = "write"
    /\ lastSequence' = lastSequence + 1
    /\ \E part \in TornWrites(FormatLine(lastSequence', cur)) :
          /\ file' = file \o part
          /\ pristine' = (pristine /\ part = <<>>)
    /\ errors' = AfterWriteError(errors).errors
    /\ wpc' = AfterWriteError(errors).wpc
    /\ UNCHANGED <<store, rpc, rnext, re, rerr, readerChans, mpc, err, ok,
                   delivered, events, sendq, cur, hpc, hreq, nreq, sent,
                   restarted, persisted, pgVars>>
    /\ UNCHANGED storeVars

----------------------------------------------------------------------------
(* The process ends (panic in main, or a kill) and is started again on the *)
(* file it left behind. The model follows one restart.                     *)

Restart ==
    /\ mpc \in {"live", "panic"}
    /\ ~restarted
    /\ restarted' = TRUE
    /\ store' = EmptyStore
    /\ lastSequence' = 0
    /\ rpc' = "scan"
    /\ rnext' = 0
    /\ re' = ZeroEvent
    /\ rerr' = "none"
    /\ outError' = <<>>
    /\ outErrorClosed' = FALSE
    /\ outEventClosed' = FALSE
    /\ mpc' = "loop"
    /\ err' = Nil
    /\ ok' = TRUE
    /\ delivered' = <<>>
    /\ events' = <<>>
    /\ sendq' = <<>>
    /\ errors' = <<>>
    /\ wpc' = "none"
    /\ cur' = ZeroEvent
    /\ hpc' = [h \in Handlers |-> "idle"]
    /\ hreq' = [h \in Handlers |-> ZeroEvent]
    /\ sent' = <<>>
    /\ UNCHANGED <<file, nreq, persisted, pristine, pgVars>>
    /\ UNCHANGED storeVars

----------------------------------------------------------------------------
(* The writer goroutine of PostgresTransactionLogger.Run. The callers and  *)
(* the events channel are those of the file logger (same interface, same   *)
(* WritePut / WriteDelete); nothing in the repository receives from Err(). *)

InitPg ==
    /\ file = <<>>
    /\ store = EmptyStore
    /\ lastSequence = 0
    /\ rpc = "done"
    /\ rnext = 0
    /\ re = ZeroEvent
    /\ rerr = "none"
    /\ outError = <<>>
    /\ outErrorClosed = TRUE
    /\ outEventClosed = TRUE
    /\ mpc = "live"
    /\ err = Nil
    /\ ok = FALSE
    /\ delivered = <<>>
    /\ events = <<>>
    /\ sendq = <<>>
    /\ errors = <<>>
    /\ wpc = "recv"
    /\ cur = ZeroEvent
    /\ hpc = [h \in Handlers |-> "idle"]
    /\ hreq = [h \in Handlers |-> ZeroEvent]
    /\ sent = <<>>
    /\ nreq = 0
    /\ restarted = FALSE
    /\ persisted = <<>>
    /\ pristine = TRUE
    /\ rows = <<>>
    /\ pgSeq = 0
    /\ StoreStart

\* l.db.Exec(INSERT ...) succeeds: the row gets the next BIGSERIAL value
PgInsert ==
    /\ mpc = "live"
    /\ wpc = "write"
    /\ pgSeq' = pgSeq + 1
    /\ rows' = Append(rows, [sequence |-> pgSeq', event_type |-> cur.EventType,
                             key |-> cur.Key, value |-> cur.Value])
    /\ wpc' = "recv"
    /\ UNCHANGED <<file, store, lastSequence, rpc, rnext, re, rerr, readerChans,
                   mpc, err, ok, delivered, events, sendq, errors, cur, hpc,
                   hreq, nreq, sent, histVars>>
    /\ UNCHANGED storeVars

\* what the writer goroutine does after a failed Exec: errors <- err, and the
\* loop goes on
PgAfterInsertError(q) ==
    IF Len(q) < ErrCap
    THEN [errors |-> Append(q, "insert"), wpc |-> "recv"]
    ELSE [errors |-> q, wpc |-> "errorBlocked"]

\* l.db.Exec(INSERT ...) fails: no row; the sequence may have advanced
PgInsertFail ==
    /\ mpc = "live"
    /\ wpc = "write"
    /\ pgSeq' \in {pgSeq, pgSeq + 1}
    /\ errors' = PgAfterInsertError(errors).errors
    /\ wpc' = PgAfterInsertError(errors).wpc
    /\ UNCHANGED <<file, store, lastSequence, rpc, rnext, re, rerr, readerChans,
                   mpc, err, ok, delivered, events, sendq, cur, hpc, hreq, nreq,
                   sent, histVars, rows>>
    /\ UNCHANGED storeVars

NextPg ==
    \/ \E h \in Handlers, k \in Keys, v \in Values : PutHandler(h, k, v)
    \/ \E h \in Handlers, k \in Keys : DeleteHandler(h, k)
    \/ \E h \in Handlers : WriteEvent(h)
    \/ \E h \in Handlers : WriteEventBlock(h)
    \/ WriterRecv
    \/ PgInsert
    \/ PgInsertFail

SpecPg == InitPg /\ [][NextPg]_vars

----------------------------------------------------------------------------
(* Recovery alone: ReadEvents and initializeTransactionLog up to its return *)

NextRecover ==
    \/ ReaderScanLine
    \/ ReaderScanEOF
    \/ ReaderReadFailure
    \/ ReaderClose
    \/ RecvEvent
    \/ RecvEventClosed
    \/ RecvError
    \/ RecvErrorClosed
    \/ Run
    \/ Return

SpecRecover == Init /\ [][NextRecover]_vars

\* scanner.Scan() returns, with a line, at the end of the file or on a failed
\* read
ReaderScan == ReaderScanLine \/ ReaderScanEOF \/ ReaderReadFailure

\* the condition under which ReaderScan can be taken: the goroutine is at
\* scanner.Scan(), which always returns
ReaderCanScan == Alive /\ rpc = "scan"

\* Both goroutines are scheduled again and again while the process lives.
\* The first fairness condition is WF_vars(ReaderScan) with the enabling
\* condition of ReaderScan written out.
SpecRecoverFair ==
    /\ SpecRecover
    /\ ([]<>(~ReaderCanScan) \/ []<><<ReaderScan>>_vars)
    /\ WF_vars(ReaderClose)
    /\ WF_vars(RecvEvent \/ RecvEventClosed \/ RecvError \/ RecvErrorClosed)
    /\ WF_vars(Run)
    /\ WF_vars(Return)

----------------------------------------------------------------------------
(* Live mode alone: the process after initializeTransactionLog has returned *)
(* without error on an empty log. Enough requests are served to occupy the *)
(* writer goroutine, fill the events channel and park one more caller.     *)

LiveRequests == QueueCap + 2

\* the process in live mode with n requests to come
LiveStart(n) ==
    /\ file = <<>>
    /\ store = EmptyStore
    /\ lastSequence = 0
    /\ rpc = "done"
    /\ rnext = 0
    /\ re = ZeroEvent
    /\ rerr = "none"
    /\ outError = <<>>
    /\ outErrorClosed = TRUE
    /\ outEventClosed = TRUE
    /\ mpc = "live"
    /\ err = Nil
    /\ ok = FALSE
    /\ delivered = <<>>
    /\ events = <<>>
    /\ sendq = <<>>
    /\ errors = <<>>
    /\ wpc = "recv"
    /\ cur = ZeroEvent
    /\ hpc = [h \in Handlers |-> "idle"]
    /\ hreq = [h \in Handlers |-> ZeroEvent]
    /\ sent = <<>>
    \* n requests are left before nreq reaches MaxRequests
    /\ nreq = MaxRequests - n
    /\ restarted = FALSE
    /\ persisted = <<>>
    /\ pristine = TRUE
    /\ rows = <<>>
    /\ pgSeq = 0
    /\ StoreStart

InitLive == LiveStart(LiveRequests)

\* getHandler: reads the store and answers; the logger is not called
GetHandler(h, key) ==
    /\ mpc = "live"
    /\ hpc[h] = "idle"
    /\ nreq < MaxRequests
    /\ nreq' = nreq + 1
    /\ UNCHANGED <<file, store, lastSequence, rpc, rnext, re, rerr, readerChans,
                   mpc, err, ok, delivered, events, sendq, errors, wpc, cur, hpc,
                   hreq, sent, histVars, pgVars>>
    /\ UNCHANGED storeVars

NextLive ==
    \/ \E h \in Handlers, k \in Keys, v \in Values : PutHandler(h, k, v)
    \/ \E h \in Handlers, k \in Keys : DeleteHandler(h, k)
    \/ \E h \in Handlers, k \in Keys : GetHandler(h, k)
    \/ \E h \in Handlers : WriteEvent(h)
    \/ \E h \in Handlers : WriteEventBlock(h)
    \/ WriterRecv
    \/ WriterWrite
    \/ WriterWriteFail

SpecLive == InitLive /\ [][NextLive]_vars

InitLiveFair == LiveStart(MaxRequests)

\* The writer goroutine is scheduled again and again: when it can take an
\* event it does, and a Fprintf it has started ends, well or badly.
SpecLiveFair ==
    /\ InitLiveFair
    /\ [][NextLive]_vars
    /\ WF_vars(WriterRecv)
    /\ WF_vars(WriterWrite \/ WriterWriteFail)

----------------------------------------------------------------------------
(* The store functions step by step: the goroutines of the request         *)
(* handlers inside Put, Get and Delete, with the RWMutex of LockableMap.   *)

progVars == <<file, lastSequence, rpc, rnext, re, rerr, readerChans, mpc, err,
              ok, delivered, liveVars, histVars, pgVars>>

InitStore == InitLive

\* the goroutine is at a statement that writes / reads store.m
Writing(g) == gpc[g] \in {"putStore", "delete"}
Reading(g) == gpc[g] = "getLoad"
Accessing(g) == Writing(g) \/ Reading(g)

\* another goroutine is at a conflicting access of store.m
Racing(g) ==
    \E o \in Handlers \ {g} :
        \/ Writing(g) /\ Accessing(o)
        \/ Accessing(g) /\ Writing(o)

\* A map access that races either goes through or is caught by the runtime,
\* which stops the process ("concurrent map writes", "concurrent map read
\* and map write").
Throws(g) == IF Racing(g) THEN BOOLEAN ELSE {FALSE}

\* Put: store.Lock()
PutLock(g, key, value) ==
    /\ ~fatal
    /\ gpc[g] = "idle"
    /\ ~mu.w
    /\ mu.r = 0
    /\ mu' = [mu EXCEPT !.w = TRUE]
    /\ gop' = [gop EXCEPT ![g] = [op |-> "Put", key |-> key, value |-> value]]
    /\ gpc' = [gpc EXCEPT ![g] = "putStore"]
    /\ UNCHANGED <<store, gret, lastMut, fatal, progVars>>

\* Put: store.m[key] = value
PutStore(g) ==
    /\ ~fatal
    /\ gpc[g] = "putStore"
    /\ \E t \in Throws(g) :
          IF t
          THEN /\ fatal' = TRUE
               /\ UNCHANGED <<store, lastMut, gpc>>
          ELSE /\ store' = Put(store, gop[g].key, gop[g].value)
               /\ lastMut' = [lastMut EXCEPT ![gop[g].key] =
                                 [op |-> "Put", value |-> gop[g].value]]
               /\ gpc' = [gpc EXCEPT ![g] = "putUnlock"]
               /\ UNCHANGED fatal
    /\ UNCHANGED <<mu, gop, gret, progVars>>

\* Put: return nil, and the deferred store.Unlock()
PutUnlock(g) ==
    /\ ~fatal
    /\ gpc[g] = "putUnlock"
    /\ mu' = [mu EXCEPT !.w = FALSE]
    /\ gret' = [gret EXCEPT ![g] = [value |-> <<>>, err |-> Nil]]
    /\ gpc' = [gpc EXCEPT ![g] = "idle"]
    /\ UNCHANGED <<store, gop, lastMut, fatal, progVars>>

\* Get: store.RLock()
GetRLock(g, key) ==
    /\ ~fatal
    /\ gpc[g] = "idle"
    /\ ~mu.w
    /\ mu' = [mu EXCEPT !.r = @ + 1]
    /\ gop' = [gop EXCEPT ![g] = [op |-> "Get", key |-> key, value |-> <<>>]]
    /\ gpc' = [gpc EXCEPT ![g] = "getLoad"]
    /\ UNCHANGED <<store, gret, lastMut, fatal, progVars>>

\* Get: value, ok := store.m[key] and the choice of the result
GetLoad(g) ==
    /\ ~fatal
    /\ gpc[g] = "getLoad"
    /\ \E t \in Throws(g) :
          IF t
          THEN /\ fatal' = TRUE
               /\ UNCHANGED <<gret, gpc>>
          ELSE /\ gret' = [gret EXCEPT ![g] = Get(store, gop[g].key)]
               /\ gpc' = [gpc EXCEPT ![g] = "getRUnlock"]
               /\ UNCHANGED fatal
    /\ UNCHANGED <<store, mu, gop, lastMut, progVars>>

\* Get: the return, and the deferred store.RUnlock()
GetRUnlock(g) ==
    /\ ~fatal
    /\ gpc[g] = "getRUnlock"
    /\ mu' = [mu EXCEPT !.r = @ - 1]
    /\ gpc' = [gpc EXCEPT ![g] = "idle"]
    /\ UNCHANGED <<store, gop, gret, lastMut, fatal, progVars>>

\* Delete is entered; it takes no lock
DeleteCall(g, key) ==
    /\ ~fatal
    /\ gpc[g] = "idle"
    /\ gop' = [gop EXCEPT ![g] = [op |-> "Delete", key |-> key, value |-> <<>>]]
    /\ gpc' = [gpc EXCEPT ![g] = "delete"]
    /\ UNCHANGED <<store, mu, gret, lastMut, fatal, progVars>>

\* Delete: delete(store.m, key); return nil
DeleteStore(g) ==
    /\ ~fatal
    /\ gpc[g] = "delete"
    /\ \E t \in Throws(g) :
          IF t
          THEN /\ fatal' = TRUE
               /\ UNCHANGED <<store, lastMut, gret, gpc>>
          ELSE /\ store' = Delete(store, gop[g].key)
               /\ lastMut' = [lastMut EXCEPT ![gop[g].key] =
                                 [op |-> "Delete", value |-> <<>>]]
               /\ gret' = [gret EXCEPT ![g] = [value |-> <<>>, err |-> Nil]]
               /\ gpc' = [gpc EXCEPT ![g] = "idle"]
               /\ UNCHANGED fatal
    /\ UNCHANGED <<mu, gop, progVars>>

NextStore ==
    \/ \E g \in Handlers, k \in Keys, v \in Values : PutLock(g, k, v)
    \/ \E g \in Handlers : PutStore(g)
    \/ \E g \in Handlers : PutUnlock(g)
    \/ \E g \in Handlers, k \in Keys : GetRLock(g, k)
    \/ \E g \in Handlers : GetLoad(g)
    \/ \E g \in Handlers : GetRUnlock(g)
    \/ \E g \in Handlers, k \in Keys : DeleteCall(g, k)
    \/ \E g \in Handlers : DeleteStore(g)

SpecStore == InitStore /\ [][NextStore]_vars

----------------------------------------------------------------------------
Next ==
    \/ ReaderScanLine
    \/ ReaderScanEOF
    \/ ReaderReadFailure
    \/ ReaderClose
    \/ RecvEvent
    \/ RecvEventClosed
    \/ RecvError
    \/ RecvErrorClosed
    \/ Run
    \/ Return
    \/ \E h \in Handlers, k \in Keys, v \in Values : PutHandler(h, k, v)
    \/ \E h \in Handlers, k \in Keys : DeleteHandler(h, k)
    \/ \E h \in Handlers : WriteEvent(h)
    \/ \E h \in Handlers : WriteEventBlock(h)
    \/ WriterRecv
    \/ WriterWrite
    \/ WriterWriteFail
    \/ Restart

Spec == Init /\ [][Next]_vars

----------------------------------------------------------------------------
(* Properties *)

\* Direct application of a sequence of Put/Delete operations to an empty store
DirectApply(m, e) ==
    CASE e.EventType = EventPut -> Put(m, e.Key, e.Value)
      [] e.EventType = EventDelete -> Delete(m, e.Key)
      [] OTHER -> m

RECURSIVE Replayed(_)
Replayed(es) ==
    IF es = <<>> THEN EmptyStore
    ELSE DirectApply(Replayed(SubSeq(es, 1, Len(es) - 1)), es[Len(es)])

IsPrefix(a, b) == Len(a) <= Len(b) /\ SubSeq(b, 1, Len(a)) = a

\* initializeTransactionLog has left its loop and not yet handed over to main
Returning == mpc \in {"run", "ret"}

\* no line has been appended to the file since this process started
Recovering == mpc \in {"loop", "run", "ret", "panic"}

\* the first n delivered events are the events of the first n lines of the log
DeliveredAreLines(n) ==
    /\ Len(delivered) = n
    /\ n <= Len(ScanLines(file))
    /\ \A i \in 1..n :
          /\ Sscanf(ScanLines(file)[i]).ok
          /\ delivered[i] = Sscanf(ScanLines(file)[i]).e

\* C1: when ReadEvents delivers the events of the log without error, the store
\* at the return of initializeTransactionLog is the result of applying the
\* delivered Put/Delete events, each once and in order, to an empty store.
C1_ReplayEqualsDirect ==
    (Returning /\ rerr = "none") =>
        /\ DeliveredAreLines(Len(ScanLines(file)))
        /\ store = Replayed(delivered)

C1_Witness ==
    /\ mpc = "ret"
    /\ rerr = "none"
    /\ Len(delivered) = 2
    /\ delivered[1].EventType = EventPut
    /\ delivered[2].EventType = EventDelete
    /\ store = EmptyStore

\* the events this process has written completely, while its writer has not failed
WrittenCount == Len(sent) - Len(events) - (IF wpc = "write" THEN 1 ELSE 0)

\* C2: after a clean replay that ended with highest sequence m, the i-th event
\* that entered the queue is persisted as the i-th new line with sequence m+i,
\* and a later ReadEvents of the file yields these events, in that order and
\* with these sequences.
C2_OrderAndSequence ==
    (mpc = "live" /\ rerr = "none" /\ wpc \in {"recv", "write"}) =>
        LET k == WrittenCount
            m == lastSequence - k
            lines == ScanLines(file)
            n0 == Len(lines) - k
        IN  /\ n0 >= 0
            /\ \A i \in 1..k :
                  /\ ScanLines(FormatLine(m + i, sent[i])) = <<lines[n0 + i]>>
                  /\ Sscanf(lines[n0 + i]).ok
                  /\ Sscanf(lines[n0 + i]).e = [sent[i] EXCEPT !.Sequence = m + i]

\* C3: whenever the ReadEvents goroutine reports an error,
\* initializeTransactionLog returns a non-nil error; it returns nil only if the
\* whole log was replayed.
C3_NoErrorLost ==
    mpc = "ret" =>
        /\ (rerr # "none" => err # Nil)
        /\ (err = Nil => (rerr = "none" /\ Len(delivered) = Len(ScanLines(file))))

\* C4 as claimed: when replay is aborted by an ordering violation or a parse
\* failure, the store at the return of the error is the store before recovery.
C4_NoPartialApply ==
    (mpc = "ret" /\ err \in {"parse", "order"}) => store = EmptyStore

\* C4 as amended: when replay is aborted by an ordering violation or a parse
\* failure at line i, the store at the return of initializeTransactionLog holds
\* the effect of the events of lines 1..i-1, in order, and of no other line.
C4_PrefixApplied ==
    (Returning /\ rerr \in {"parse", "order"}) =>
        /\ DeliveredAreLines(rnext - 1)
        /\ store = Replayed(delivered)

C4_Witness ==
    /\ mpc = "ret"
    /\ err = "parse"
    /\ rnext = 2
    /\ Len(ScanLines(file)) = 3
    /\ store = Put(EmptyStore, <<"a">>, <<"1">>)

\* line i parses and its sequence is not greater than that of line i-1 (0 for i = 1)
NonIncreasingLine(i) ==
    LET lines == ScanLines(file) IN
    /\ Sscanf(lines[i]).ok
    /\ Sscanf(lines[i]).e.Sequence <=
          (IF i = 1 THEN 0 ELSE Sscanf(lines[i - 1]).e.Sequence)

\* C5: a line whose sequence is not strictly greater than the previous line's
\* is not delivered, nor is any later line, and the ordering error is on the
\* error channel from then on, hence before the event channel is closed; the
\* delivered events have strictly increasing sequences.
C5_OrderingRejected ==
    Recovering =>
        /\ \A i \in 1..Len(delivered) :
              delivered[i].Sequence >
                  (IF i = 1 THEN 0 ELSE delivered[i - 1].Sequence)
        /\ \A i \in 1..rnext :
              NonIncreasingLine(i) =>
                  /\ rnext = i
                  /\ rerr = "order"
                  /\ rpc \in {"close", "done"}
                  /\ Len(delivered) = i - 1
                  /\ (outError = <<"order">> \/ err = "order")
        /\ (rerr = "order" => NonIncreasingLine(rnext))

C5_Witness ==
    /\ Recovering
    /\ rerr = "order"
    /\ outEventClosed
    /\ rnext = 2
    /\ Len(ScanLines(file)) = 3
    /\ Len(delivered) = 1

\* C6: the line the writer writes for the event it holds parses back, without
\* error, to an Event with the same kind, key and value and the sequence the
\* writer assigns.
C6_RoundTrip ==
    wpc = "write" =>
        LET lines == ScanLines(FormatLine(lastSequence + 1, cur)) IN
        /\ Len(lines) = 1
        /\ Sscanf(lines[1]).ok
        /\ Sscanf(lines[1]).e = [cur EXCEPT !.Sequence = lastSequence + 1]

\* C7: when the file holds exactly the lines the writer persisted, the replay
\* of a restart completes without error and leaves the store that applying the
\* persisted Put/Delete events to an empty store gives.
C7_EndToEnd ==
    (restarted /\ pristine /\ persisted # <<>> /\ mpc = "ret" /\ rerr # "read") =>
        /\ rerr = "none"
        /\ err = Nil
        /\ store = Replayed(persisted)

\* C8: the file writer is fail-stop: a write failure puts one error on the
\* errors channel without blocking and ends the goroutine; from then on no
\* event leaves the queue and the file does not change.
C8_FileWriterFailStop ==
    /\ [](wpc # "errorBlocked")
    /\ [](IF wpc = "failed" THEN errors = <<"write">> ELSE errors = <<>>)
    /\ [][(wpc = "failed" /\ restarted' = restarted) =>
             /\ wpc' = "failed"
             /\ file' = file
             /\ lastSequence' = lastSequence
             /\ errors' = errors
             /\ cur' = cur
             /\ IsPrefix(events, events')]_vars

C8_Witness ==
    /\ wpc = "failed"
    /\ errors = <<"write">>
    /\ events # <<>>
    /\ Len(sent) = 2

\* C9: the relational writer is fail-stop: once an INSERT has failed the writer
\* has terminated, and it is never blocked on a send to the errors channel.
C9_PgWriterFailStop ==
    /\ wpc # "errorBlocked"
    /\ (errors # <<>> => wpc = "failed")

\* a parked caller resumes (the process goes on)
Released(h) == hpc[h] = "blocked" /\ hpc'[h] = "idle" /\ restarted' = restarted

\* C10 as claimed: a caller parked on the full queue is released only after the
\* writer has persisted the oldest queued event, so at the release the writer
\* does not hold an event it has yet to write.
C10_ReleasedAfterPersist ==
    [][\A h \in Handlers : Released(h) => wpc' # "write"]_vars

\* C10 as amended: the queue never holds more than QueueCap events; a send
\* returns at once while the queue holds fewer, and parks the caller when it is
\* full; a parked caller is released in the step in which the writer takes the
\* oldest event out of the queue, before that event is written.
C10_Backpressure ==
    /\ [](Len(events) <= QueueCap)
    /\ [](\A h \in Handlers : hpc[h] = "blocked" => Len(events) = QueueCap)
    /\ [][\A h \in Handlers :
             (hpc[h] = "send" /\ hpc'[h] # "send" /\ restarted' = restarted) =>
                 IF Len(events) < QueueCap
                 THEN hpc'[h] = "idle" /\ events' = Append(events, hreq[h])
                 ELSE hpc'[h] = "blocked" /\ events' = events]_vars
    /\ [][\A h \in Handlers :
             Released(h) =>
                 /\ wpc = "recv" /\ wpc' = "write"
                 /\ cur' = Head(events)
                 /\ events' = Append(Tail(events), hreq[h])
                 /\ file' = file]_vars

C10_Witness ==
    \E h \in Handlers :
        /\ hpc[h] = "blocked"
        /\ Len(events) = QueueCap
        /\ wpc = "recv"

\* C11 (as stated): after the writer goroutine has failed no WritePut or
\* WriteDelete call returns any more, and no event is persisted
C11_NoAppendReturns ==
    [][wpc = "failed" => (sent' = sent /\ persisted' = persisted)]_vars

\* C11 (amended): after the writer goroutine has failed it stays failed,
\* nothing is persisted and nothing leaves the events channel; a call returns
\* only while the channel has room, and once the channel is full no call
\* returns and no parked caller is released
C11_BlocksOnceFull ==
    [][wpc = "failed" =>
          /\ wpc' = "failed"
          /\ file' = file
          /\ persisted' = persisted
          /\ lastSequence' = lastSequence
          /\ Len(events') >= Len(events)
          /\ sent' # sent => Len(events) < QueueCap
          /\ \A h \in Handlers :
                /\ hpc[h] = "blocked" => hpc'[h] = "blocked"
                /\ (hpc[h] = "send" /\ Len(events) = QueueCap)
                      => hpc'[h] \in {"send", "blocked"}]_vars

C11_Witness ==
    /\ wpc = "failed"
    /\ Len(events) = QueueCap
    /\ \E h \in Handlers : hpc[h] = "blocked"
    /\ Len(sent) > Len(persisted) + 1

\* C12: while a Put or a Delete accesses the map no other Put, Get or Delete
\* accesses it; only Gets access it together
C12_WritersExclusive ==
    \A g \in Handlers :
        Writing(g) => \A o \in Handlers \ {g} : ~Accessing(o)

\* a Get has just produced its result
Loaded(g) == gpc[g] = "getLoad" /\ gpc'[g] = "getRUnlock"

\* C13: Get(k) returns ErrorNoSuchKey with the empty string exactly when k
\* was never Put or its most recent mutation is a Delete; otherwise it
\* returns the value of the most recent Put and no error
C13_GetFollowsLastMutation ==
    [][\A g \in Handlers :
          Loaded(g) =>
             LET last == lastMut[gop[g].key] IN
             /\ (gret'[g].err = "ErrorNoSuchKey") <=> (last.op \in {"none", "Delete"})
             /\ gret'[g].err = "ErrorNoSuchKey" => gret'[g].value = <<>>
             /\ last.op = "Put" =>
                   gret'[g] = [value |-> last.value, err |-> Nil]]_vars

C13_Witness ==
    \E g \in Handlers :
        /\ gpc[g] = "getRUnlock"
        /\ gret[g].err = "ErrorNoSuchKey"
        /\ lastMut[gop[g].key].op = "Delete"
        /\ \E k \in Keys : lastMut[k].op = "Put"

\* the entries of keys other than key are the same in m and n
SameElsewhere(m, n, key) ==
    /\ (DOMAIN m) \ {key} = (DOMAIN n) \ {key}
    /\ \A k \in (DOMAIN m) \ {key} : m[k] = n[k]

\* C14: Delete(k) never returns an error; it leaves the store unchanged when
\* k is absent and otherwise removes the entry of k only; Put(k, v) changes
\* the entry of k only
C14_Frame ==
    [][\A g \in Handlers :
          /\ (gpc[g] = "delete" /\ gpc'[g] = "idle") =>
                /\ gret'[g].err = Nil
                /\ gop[g].key \notin DOMAIN store => store' = store
                /\ gop[g].key \notin DOMAIN store'
                /\ SameElsewhere(store, store', gop[g].key)
          /\ (gpc[g] = "putStore" /\ gpc'[g] = "putUnlock") =>
                /\ gop[g].key \in DOMAIN store'
                /\ store'[gop[g].key] = gop[g].value
                /\ SameElsewhere(store, store', gop[g].key)
          /\ (gpc[g] = "putUnlock" /\ gpc'[g] = "idle") =>
                gret'[g].err = Nil]_vars

C14_Witness ==
    \E g \in Handlers, k \in Keys :
        /\ gpc[g] = "idle"
        /\ gop[g].op = "Delete"
        /\ gret[g].err = Nil
        /\ lastMut[gop[g].key].op = "Delete"
        /\ k # gop[g].key
        /\ k \in DOMAIN store

\* handler h has updated the store and is about to call WritePut / WriteDelete
Updated(h) == hpc[h] = "idle" /\ hpc'[h] = "send"

\* the WritePut / WriteDelete call of handler h returns
Logged(h) == hpc[h] \in {"send", "blocked"} /\ hpc'[h] = "idle"

\* a GET request is served
Got == nreq' # nreq /\ hpc' = hpc

C16_RunAfterCleanReplay ==
    wpc # "none" => (err = Nil /\ rerr = "none")

\* the writer goroutine has persisted every event that entered the queue and
\* no handler is inside a request
Drained ==
    /\ wpc = "recv"
    /\ events = <<>>
    /\ persisted = sent
    /\ \A h \in Handlers : hpc[h] = "idle"

\* C17: once the writer has drained the queue, replaying the logged events
\* into an empty store gives every key the value (or absence) the live store
\* holds
C17_StoreAgreesWithLog ==
    Drained => \A k \in Keys : Get(store, k) = Get(Replayed(persisted), k)

\* the file that holds the events es as lines 1 .. Len(es)
RECURSIVE FileOf(_)
FileOf(es) ==
    IF es = <<>> THEN <<>>
    ELSE FileOf(SubSeq(es, 1, Len(es) - 1)) \o FormatLine(Len(es), es[Len(es)])

\* C18: with a writer goroutine that is scheduled fairly and meets no write
\* failure, every event whose WritePut / WriteDelete call has returned is
\* eventually persisted; the persisted events are the accepted ones in their
\* order, each written once
C18_EventuallyPersistedOnce ==
    /\ [](IsPrefix(persisted, sent))
    /\ [](pristine => file = FileOf(persisted))
    /\ \A n \in 1..MaxRequests :
          (Len(sent) >= n) ~> (Len(persisted) >= n \/ wpc = "failed")

C18_Witness ==
    /\ Len(sent) = MaxRequests
    /\ persisted = sent
    /\ file = FileOf(sent)
    /\ wpc = "recv"

\* initializeTransactionLog has returned
Returned == mpc \in {"live", "panic"}

\* the ReadEvents goroutine has ended, its deferred closes done
ReaderDone == rpc = "done" /\ outErrorClosed /\ outEventClosed

\* C19 (as stated): for every log initializeTransactionLog eventually returns
\* and the ReadEvents goroutine eventually ends with both channels closed
C19_ReaderAlwaysFinishes ==
    /\ <>Returned
    /\ <>ReaderDone

\* C19 (amended): initializeTransactionLog eventually returns; once the loop
\* has been left the ReadEvents goroutine is past all its sends; it ends with
\* both channels closed unless main panics on the replay error before
C19_ReturnsAndNoBlockedSend ==
    /\ <>Returned
    /\ [](mpc # "loop" => rpc \in {"close", "done"})
    /\ [](rpc = "done" => (outErrorClosed /\ outEventClosed))
    /\ <>(ReaderDone \/ mpc = "panic")
    /\ [](mpc = "live" => <>ReaderDone)

C19_Witness ==
    /\ mpc = "panic"
    /\ rerr # "none"
    /\ delivered # <<>>
    /\ ReaderDone

\* the sequence of the last event the recovery loop has received, 0 if none
LastDelivered ==
    IF delivered = <<>> THEN 0 ELSE delivered[Len(delivered)].Sequence

\* the writer goroutine runs and has not yet incremented lastSequence
BeforeFirstIncrement == wpc \in {"recv", "write"} /\ WrittenCount = 0

\* C20: once Run has started the writer goroutine the ReadEvents goroutine is
\* past its last access of lastSequence, only the writer changes it, and up to
\* the writer's first increment it is the greatest sequence delivered during
\* replay (0 if none was delivered)
C20_SequenceHandOff ==
    /\ [](wpc # "none" => rpc \in {"close", "done"})
    /\ [](BeforeFirstIncrement =>
             /\ lastSequence = LastDelivered
             /\ \A i \in 1..Len(delivered) : delivered[i].Sequence <= lastSequence)
    /\ [][(wpc # "none" /\ restarted' = restarted /\ lastSequence' # lastSequence)
             => (wpc = "write" /\ lastSequence' = lastSequence + 1)]_vars

C20_Witness ==
    /\ wpc = "recv"
    /\ Len(persisted) = 1
    /\ ~restarted
    /\ delivered # <<>>
    /\ lastSequence = LastDelivered + 1

====
